---- MODULE Spec2Model ----
(***************************************************************************)
(* Verification model of deepfracture-demo.                                *)
(*                                                                         *)
(*  - Spec      : App (src/src/App.tsx) driving the keyed HavokViewer      *)
(*                component (src/src/components/HavokViewer.tsx): mount,   *)
(*                asynchronous bootstrap, effects, frames, teardown.       *)
(*  - SpecParse : the OBJ parser of src/src/lib/objParser.ts, run line by  *)
(*                line over bounded input texts.                           *)
(*                                                                         *)
(* Real numbers are fixed point, in thousandths (Milli).                   *)
(***************************************************************************)
EXTENDS Integers, Sequences, FiniteSets, TLC

VARIABLES
    \* ---- App state (App.tsx:9-14)
    primaryModel, isRunning, sessionKey, launchAngle, launchElevation, launchSpeed,
    \* ---- one record per HavokViewer instance, in mount order; the last one
    \*      is the instance in the tree, the others have been unmounted
    sessions,
    \* ---- host: pending zero-delay timers, the alerts already shown, and
    \*      whether an exception has reached the host uncaught
    timers, alerts, uncaught,
    \* ---- parseOBJ run (objParser.ts:15-77): the input text, its lines, the
    \*      index of the next line, the function's locals, how it ended
    source, lines, lineNo, vertexPositions, vertexNormals, positionBuffer, normalBuffer,
    parseStatus, result,
    \* ---- the arrays a caller of the matrix functions holds
    \*      (objParser.ts:133-320): heap[address] is the content of a Vec3 or
    \*      of a Float32Array(16); call is the last call made, with the
    \*      addresses it was given and the address it returned
    heap, call,
    \* ---- one imported mesh on its way through loadNormalizedMesh
    \*      (HavokViewer.tsx:284-327): its vertex positions and its scaling,
    \*      and how far the function has come
    mesh, meshStatus

appVars == <<primaryModel, isRunning, sessionKey, launchAngle, launchElevation, launchSpeed>>
viewerVars == <<sessions, timers, alerts, uncaught>>
parseVars == <<source, lines, lineNo, vertexPositions, vertexNormals, positionBuffer,
               normalBuffer, parseStatus, result>>
matVars == <<heap, call>>
meshVars == <<mesh, meshStatus>>
vars == <<appVars, viewerVars, parseVars, matVars, meshVars>>

----------------------------------------------------------------------------
(* Bounds *)

MaxSessions == 2    \* viewer instances mounted in one behaviour
MaxMoved == 1       \* sliders standing away from their initial value at once
MaxMats == 3        \* matrices allocated in one behaviour
MaxVerts == 2       \* vertices of an imported mesh

----------------------------------------------------------------------------
(* Fixed-point arithmetic *)

Milli == 1000

\* floor(sqrt(n)) by bisection, n >= 0
RECURSIVE ISqrtBetween(_, _, _)
ISqrtBetween(n, lo, hi) ==
    IF hi - lo <= 1 THEN lo
    ELSE LET mid == (lo + hi) \div 2
         IN  IF mid * mid <= n THEN ISqrtBetween(n, mid, hi)
                               ELSE ISqrtBetween(n, lo, mid)

\* 46341^2 exceeds the 32-bit range the model's integers live in
ISqrt(n) == IF n <= 0 THEN 0 ELSE ISqrtBetween(n, 0, IF n < 46340 THEN n + 1 ELSE 46341)

Max2(a, b) == IF a >= b THEN a ELSE b

\* Math.cos / Math.sin of a whole number of degrees, in thousandths
CosDeg(d) ==
    CASE d = 0 -> 1000 [] d = 30 -> 866 [] d = 66 -> 407 [] d = 90 -> 0
      [] d = 180 -> -1000 [] d = 270 -> 0 [] d = 360 -> 1000
SinDeg(d) ==
    CASE d = 0 -> 0 [] d = 30 -> 500 [] d = 66 -> 914 [] d = 90 -> 1000
      [] d = 180 -> 0 [] d = 270 -> -1000 [] d = 360 -> 0

Vec3Zero == <<0, 0, 0>>

----------------------------------------------------------------------------
(* HavokViewer.tsx constants *)

PRIMARY_MODELS == {"squirrel", "lion", "pot", "bunny", "base"}
DEFAULT_LAUNCH_RADIUS == 4500
DEFAULT_LAUNCH_HEIGHT == 10000
LAUNCH_DISTANCE ==
    ISqrt(DEFAULT_LAUNCH_RADIUS * DEFAULT_LAUNCH_RADIUS
          + DEFAULT_LAUNCH_HEIGHT * DEFAULT_LAUNCH_HEIGHT)
MIN_LAUNCH_HEIGHT == 500
DEFAULT_LAUNCH_ELEVATION == 66
DEFAULT_LAUNCH_SPEED == 6500

\* Inputs the widgets of App.tsx can deliver (a bounded choice of them)
Models == {"lion"}          \* the button pressed: a change of model the first time,
                            \* a reset to the same model after that
Angles == {0, 90}
Elevations == {0, DEFAULT_LAUNCH_ELEVATION}
Speeds == {DEFAULT_LAUNCH_SPEED, 12000}

\* values a rejected `await HavokPhysics()` can hand to the catch block: an
\* Error with its message, or a value that is no Error
Thrown == { [isError |-> TRUE, message |-> "havok failed"],
            [isError |-> FALSE, message |-> ""] }

\* the Error mergeMeshes throws on an import without geometry
\* (HavokViewer.tsx:300), and the Error of a throwing setLinearVelocity
LoadError == [isError |-> TRUE, message |-> "No mesh geometry found in imported OBJ"]
LaunchError == [isError |-> TRUE, message |-> "launch failed"]

\* how the tail of bootstrap can go: to its end, or setLinearVelocity
\* (HavokViewer.tsx:206) throws
ThrowChoices == {"none", "launch"}

NoError == "none"
UnknownError == "Unknown error while initialising Havok viewer"

computeLaunchPosition(angle, elevation) ==
    LET horizontalRadius == (CosDeg(elevation) * LAUNCH_DISTANCE) \div Milli
        height == Max2((SinDeg(elevation) * LAUNCH_DISTANCE) \div Milli, MIN_LAUNCH_HEIGHT)
    IN  << (CosDeg(angle) * horizontalRadius) \div Milli,
           (SinDeg(angle) * horizontalRadius) \div Milli,
           height >>

VecLength(v) == ISqrt(v[1] * v[1] + v[2] * v[2] + v[3] * v[3])

\* the launch velocity without the normalize()
initialVelocity_unnormalized(position, speed) ==
    LET d == << 0 - position[1], 0 - position[2], 0 - position[3] >>
    IN  << (d[1] * speed) \div Milli, (d[2] * speed) \div Milli, (d[3] * speed) \div Milli >>

\* Vector3.Zero().subtract(position).normalize().scale(launchSpeed)
initialVelocity(position, speed) ==
    LET d == << 0 - position[1], 0 - position[2], 0 - position[3] >>
        len == VecLength(d)
        n == IF len = 0 THEN d
             ELSE << (d[1] * Milli) \div len, (d[2] * Milli) \div len, (d[3] * Milli) \div len >>
    IN  << (n[1] * speed) \div Milli, (n[2] * speed) \div Milli, (n[3] * speed) \div Milli >>

\* Outcomes of one Havok step for a body of non-zero mass (the engine is an
\* external library: any of these poses/velocities may come back)
SimOutcomes == { [position |-> <<0, 0, 3500>>, velocity |-> <<0, 0, -1000>>],
                 [position |-> <<0, 0, 1000>>, velocity |-> <<0, 0, 2000>>] }
IdleOutcome == CHOOSE o \in SimOutcomes : TRUE    \* ignored: a body of mass 0 stays put

----------------------------------------------------------------------------
(* One HavokViewer instance *)

NoSphere == [created |-> FALSE, position |-> Vec3Zero, velocity |-> Vec3Zero, mass |-> 0]

\* The props closed over by bootstrap are held while bootstrap can still
\* read them; once it has returned the closure is unreachable.
Released == [launchAngle |-> 0, launchElevation |-> 0, launchSpeed |-> 0]

\* First render + the synchronous head of bootstrap (engine, scene, camera,
\* lights) up to `await HavokPhysics(...)`; the two launch effects find the
\* refs still null and return.
NewSession(key, run, angle, elevation, speed) ==
    [ key             |-> key,
      running         |-> run,
      \* launchSpeed is read only by the launch of a running instance
      closure         |-> [launchAngle |-> angle, launchElevation |-> elevation,
                           launchSpeed |-> IF run THEN speed ELSE 0],
      pc              |-> "awaitHavok",
      physicsEnabled  |-> FALSE,        \* scene.enablePhysics has been called
      meshes          |-> FALSE,        \* Promise.all of the three loads fulfilled
      disposed        |-> FALSE,
      sceneDisposed   |-> FALSE,
      engineDisposed  |-> FALSE,
      cleanupObservers |-> << >>,
      listeners       |-> {},
      renderLoop      |-> FALSE,
      sphere          |-> NoSphere,
      sphereMeshRef   |-> FALSE,
      sphereAggregateRef |-> FALSE,
      triggered       |-> {},
      error           |-> NoError ]

SeqToSet(s) == { s[i] : i \in DOMAIN s }

\* the function returned by the bootstrap effect (HavokViewer.tsx:237-249)
cleanup(s) ==
    [ s EXCEPT !.disposed = TRUE,
               !.listeners = s.listeners \ SeqToSet(s.cleanupObservers),
               !.sceneDisposed = TRUE,
               !.renderLoop = IF s.engineDisposed THEN s.renderLoop ELSE FALSE,
               !.engineDisposed = TRUE,
               !.sphereMeshRef = FALSE,
               !.sphereAggregateRef = FALSE ]

\* catch that drops the error instead of reporting it
catch_silent(s, err) ==
    [ s EXCEPT !.pc = "failed", !.closure = Released ]

\* catch block of bootstrap (HavokViewer.tsx:223-232)
catch(s, err) ==
    IF s.disposed
    THEN [ s EXCEPT !.pc = "failed", !.closure = Released ]
    ELSE [ s EXCEPT !.pc = "failed", !.closure = Released,
                    !.error = IF err.isError THEN err.message ELSE UnknownError ]

\* bootstrapRest that registers the collision observer whatever `running` is
bootstrapRest_alwaysObserve(s, throw) ==
      LET pos == computeLaunchPosition(s.closure.launchAngle, s.closure.launchElevation)
          s1 == [ s EXCEPT !.sphere = [created |-> TRUE, position |-> pos,
                                       velocity |-> Vec3Zero,
                                       mass |-> IF s.running THEN 1 ELSE 0],
                           !.sphereMeshRef = TRUE,
                           !.sphereAggregateRef = TRUE ]
          s2 == [ s1 EXCEPT !.listeners = s1.listeners \cup {"collision"},
                            !.cleanupObservers = Append(s1.cleanupObservers, "collision") ]
      IN  IF throw = "launch" THEN catch(s2, LaunchError)
          ELSE
            LET s3 == IF s.running
                      THEN [ s2 EXCEPT !.sphere.velocity = initialVelocity(pos, s.closure.launchSpeed) ]
                      ELSE s2
            IN  [ s3 EXCEPT !.listeners = s3.listeners \cup {"resize"},
                            !.cleanupObservers = Append(s3.cleanupObservers, "resize"),
                            !.renderLoop = TRUE,
                            !.pc = "ready",
                            !.closure = Released ]

\* bootstrapRest that gives the sphere its mass and its launch whatever
\* `running` is
bootstrapRest_alwaysLaunch(s, throw) ==
      LET pos == computeLaunchPosition(s.closure.launchAngle, s.closure.launchElevation)
          s1 == [ s EXCEPT !.sphere = [created |-> TRUE, position |-> pos,
                                       velocity |-> Vec3Zero,
                                       mass |-> 1],
                           !.sphereMeshRef = TRUE,
                           !.sphereAggregateRef = TRUE ]
          s2 == [ s1 EXCEPT !.listeners = s1.listeners \cup {"collision"},
                            !.cleanupObservers = Append(s1.cleanupObservers, "collision") ]
      IN  IF throw = "launch" THEN catch(s2, LaunchError)
          ELSE
            LET s3 == [ s2 EXCEPT !.sphere.velocity = initialVelocity(pos, s.closure.launchSpeed) ]
            IN  [ s3 EXCEPT !.listeners = s3.listeners \cup {"resize"},
                            !.cleanupObservers = Append(s3.cleanupObservers, "resize"),
                            !.renderLoop = TRUE,
                            !.pc = "ready",
                            !.closure = Released ]

\* bootstrap after the joined mesh loads (HavokViewer.tsx:122-222)
bootstrapRest(s, throw) ==
      LET pos == computeLaunchPosition(s.closure.launchAngle, s.closure.launchElevation)
          s1 == [ s EXCEPT !.sphere = [created |-> TRUE, position |-> pos,
                                       velocity |-> Vec3Zero,
                                       mass |-> IF s.running THEN 1 ELSE 0],
                           !.sphereMeshRef = TRUE,
                           !.sphereAggregateRef = TRUE ]
          s2 == IF s.running
                THEN [ s1 EXCEPT !.listeners = s1.listeners \cup {"collision"},
                                 !.cleanupObservers = Append(s1.cleanupObservers, "collision") ]
                ELSE s1
      IN  IF throw = "launch" THEN catch(s2, LaunchError)
          ELSE
            LET s3 == IF s.running
                      THEN [ s2 EXCEPT !.sphere.velocity = initialVelocity(pos, s.closure.launchSpeed) ]
                      ELSE s2
            IN  [ s3 EXCEPT !.listeners = s3.listeners \cup {"resize"},
                            !.cleanupObservers = Append(s3.cleanupObservers, "resize"),
                            !.renderLoop = TRUE,
                            !.pc = "ready",
                            !.closure = Released ]

Live == Len(sessions)

----------------------------------------------------------------------------
(* objParser.ts: text primitives.  A text is a sequence of one-character  *)
(* strings; numbers are fixed point in thousandths.                        *)

\* NaN: a reserved value outside the range of every number that is parsed
\* or computed; the arithmetic below propagates it
NaN == -2000000000
IsNaN(x) == x = NaN

Digits == {"0", "1", "2", "3", "4", "5", "6", "7", "8", "9"}
DigitVal(c) ==
    CASE c = "0" -> 0 [] c = "1" -> 1 [] c = "2" -> 2 [] c = "3" -> 3 [] c = "4" -> 4
      [] c = "5" -> 5 [] c = "6" -> 6 [] c = "7" -> 7 [] c = "8" -> 8 [] c = "9" -> 9

\* characters matched by \s inside a line
WhiteSpace == {" ", "\t", "\r"}

\* the string "undefined", which is what parseFloat sees for a missing segment
Undefined == <<"u", "n", "d", "e", "f", "i", "n", "e", "d">>

\* index of the first element of s at or after k that satisfies "is in set",
\* or Len(s) + 1
RECURSIVE FirstIn(_, _, _)
FirstIn(s, k, set) ==
    IF k > Len(s) THEN Len(s) + 1
    ELSE IF s[k] \in set THEN k ELSE FirstIn(s, k + 1, set)

RECURSIVE FirstNotIn(_, _, _)
FirstNotIn(s, k, set) ==
    IF k > Len(s) THEN Len(s) + 1
    ELSE IF s[k] \notin set THEN k ELSE FirstNotIn(s, k + 1, set)

RECURSIVE LastNotIn(_, _, _)
LastNotIn(s, k, set) ==
    IF k < 1 THEN 0
    ELSE IF s[k] \notin set THEN k ELSE LastNotIn(s, k - 1, set)

\* source.split(/\r?\n/)
RECURSIVE splitLines(_)
splitLines(src) ==
    LET k == FirstIn(src, 1, {"\n"})
        end == IF k > 1 /\ k <= Len(src) /\ src[k - 1] = "\r" THEN k - 2 ELSE k - 1
    IN  IF k > Len(src) THEN << src >>
        ELSE << SubSeq(src, 1, end) >> \o splitLines(SubSeq(src, k + 1, Len(src)))

\* rawLine.trim()
trim(l) ==
    LET a == FirstNotIn(l, 1, WhiteSpace)
        b == LastNotIn(l, Len(l), WhiteSpace)
    IN  IF a > Len(l) THEN << >> ELSE SubSeq(l, a, b)

\* line.split(/\s+/) of a trimmed, non-empty line
RECURSIVE splitSpaces(_)
splitSpaces(l) ==
    LET k == FirstIn(l, 1, WhiteSpace)
        n == FirstNotIn(l, k, WhiteSpace)
    IN  IF k > Len(l) THEN << l >>
        ELSE << SubSeq(l, 1, k - 1) >> \o splitSpaces(SubSeq(l, n, Len(l)))

\* token.split("/")
RECURSIVE splitSlash(_)
splitSlash(t) ==
    LET k == FirstIn(t, 1, {"/"})
    IN  IF k > Len(t) THEN << t >>
        ELSE << SubSeq(t, 1, k - 1) >> \o splitSlash(SubSeq(t, k + 1, Len(t)))

\* value of a sequence of digits
RECURSIVE DigitsValue(_, _)
DigitsValue(ds, acc) ==
    IF ds = << >> THEN acc ELSE DigitsValue(Tail(ds), 10 * acc + DigitVal(Head(ds)))

\* parseInt(t, 10): optional sign, then the longest run of digits; NaN if none
parseInt(t) ==
    LET signed == t # << >> /\ t[1] \in {"-", "+"}
        from == IF signed THEN 2 ELSE 1
        to == FirstNotIn(t, from, Digits) - 1
        mag == DigitsValue(SubSeq(t, from, to), 0)
    IN  IF to < from THEN NaN
        ELSE IF signed /\ t[1] = "-" THEN 0 - mag ELSE mag

\* parseFloat(t): optional sign, digits, optional fraction (kept to three
\* places); NaN if there is no digit.  Exponents do not occur in the inputs.
parseFloat(t) ==
    LET signed == t # << >> /\ t[1] \in {"-", "+"}
        from == IF signed THEN 2 ELSE 1
        to == FirstNotIn(t, from, Digits) - 1
        hasFrac == to + 1 <= Len(t) /\ t[to + 1] = "."
        fto == IF hasFrac THEN FirstNotIn(t, to + 2, Digits) - 1 ELSE to
        frac == IF hasFrac THEN SubSeq(t, to + 2, fto) ELSE << >>
        frac3 == SubSeq(frac \o <<"0", "0", "0">>, 1, 3)
        mag == DigitsValue(SubSeq(t, from, to), 0) * Milli + DigitsValue(frac3, 0)
    IN  IF to < from /\ frac = << >> THEN NaN
        ELSE IF signed /\ t[1] = "-" THEN 0 - mag ELSE mag

\* segments[k] of a destructuring `[, x, y, z] = segments` (k counted from 1)
Segment(segments, k) == IF k <= Len(segments) THEN segments[k] ELSE Undefined

FSub(a, b) == IF IsNaN(a) \/ IsNaN(b) THEN NaN ELSE a - b
FMul(a, b) == IF IsNaN(a) \/ IsNaN(b) THEN NaN ELSE (a * b) \div Milli
FDiv(a, b) == IF IsNaN(a) \/ IsNaN(b) THEN NaN ELSE (a * Milli) \div b
\* Math.hypot
FHypot(a, b, c) ==
    IF IsNaN(a) \/ IsNaN(b) \/ IsNaN(c) THEN NaN ELSE ISqrt(a * a + b * b + c * c)

\* Float32Array element conversion: magnitudes below 2^24 keep every
\* thousandth the model can tell apart; larger ones lose low digits
Float32Exact == 16777216
fround(x) ==
    IF IsNaN(x) THEN NaN
    ELSE IF x < Float32Exact /\ x > 0 - Float32Exact THEN x
    ELSE (x \div 2) * 2

toFloat32Array(buf) == [ k \in DOMAIN buf |-> fround(buf[k]) ]

----------------------------------------------------------------------------
(* objParser.ts: parseOBJ *)

\* parseFaceToken that keeps the 1-based numbers of the text
parseFaceToken_oneBased(token) ==
    LET parts == splitSlash(token)
        hasN == Len(parts) >= 3 /\ parts[3] # << >>
    IN  [ vertexIndex |-> parseInt(parts[1]),
          hasNormal   |-> hasN,
          normalIndex |-> IF hasN THEN parseInt(parts[3]) ELSE NaN ]

\* parseFaceToken (objParser.ts:79-84).  hasNormal is FALSE for
\* normalIndex === undefined.
parseFaceToken(token) ==
    LET parts == splitSlash(token)
        v == parts[1]
        hasN == Len(parts) >= 3 /\ parts[3] # << >>
        pv == parseInt(v)
        pn == IF hasN THEN parseInt(parts[3]) ELSE NaN
    IN  [ vertexIndex |-> IF IsNaN(pv) THEN NaN ELSE pv - 1,
          hasNormal   |-> hasN,
          normalIndex |-> IF IsNaN(pn) THEN NaN ELSE pn - 1 ]

\* array[index] is defined (index counted from 0)
Defined(array, index) == ~IsNaN(index) /\ index >= 0 /\ index < Len(array)

\* a strip instead of a fan: [fv[i-1], fv[i], fv[i+1]]
RECURSIVE fanFrom_strip(_, _)
fanFrom_strip(fv, i) ==
    IF i > Len(fv) - 2 THEN << >>
    ELSE << fv[i], fv[i + 1], fv[i + 2] >> \o fanFrom_strip(fv, i + 1)

\* the fan of a face: [fv[0], fv[i], fv[i+1]] for i = 1 .. length-2, flattened
\* in the order visited (objParser.ts:45-47)
RECURSIVE fanFrom(_, _)
fanFrom(fv, i) ==
    IF i > Len(fv) - 2 THEN << >>
    ELSE << fv[1], fv[i + 1], fv[i + 2] >> \o fanFrom(fv, i + 1)

\* emit with an unresolved normal index treated like a missing position
RECURSIVE emit_strictNormals(_, _, _, _)
emit_strictNormals(visit, vps, vns, st) ==
    IF visit = << >> THEN st
    ELSE
      LET faceIdx == Head(visit) IN
      IF \/ ~Defined(vps, faceIdx.vertexIndex)
         \/ faceIdx.hasNormal /\ ~Defined(vns, faceIdx.normalIndex)
      THEN [ st EXCEPT !.thrown = TRUE ]
      ELSE
        LET position == vps[faceIdx.vertexIndex + 1]
            normal == IF faceIdx.hasNormal
                      THEN vns[faceIdx.normalIndex + 1]
                      ELSE << 0, 0, 0 >>
        IN  emit_strictNormals(Tail(visit), vps, vns,
                 [ st EXCEPT !.positions = @ \o position, !.normals = @ \o normal ])

\* the forEach body over the visited face indices (objParser.ts:47-63);
\* st = [positions, normals, thrown]
RECURSIVE emit(_, _, _, _)
emit(visit, vps, vns, st) ==
    IF visit = << >> THEN st
    ELSE
      LET faceIdx == Head(visit) IN
      IF ~Defined(vps, faceIdx.vertexIndex)
      THEN [ st EXCEPT !.thrown = TRUE ]
      ELSE
        LET position == vps[faceIdx.vertexIndex + 1]
            normal == IF faceIdx.hasNormal /\ Defined(vns, faceIdx.normalIndex)
                      THEN vns[faceIdx.normalIndex + 1]
                      ELSE << 0, 0, 0 >>
        IN  emit(Tail(visit), vps, vns,
                 [ st EXCEPT !.positions = @ \o position, !.normals = @ \o normal ])

\* computeFaceNormals that writes each face normal once instead of once per
\* vertex, into an array it lets grow
RECURSIVE computeFaceNormals_once(_)
computeFaceNormals_once(pb) ==
    IF Len(pb) < 9 THEN << >>
    ELSE
      LET nx == FSub(FMul(FSub(pb[5], pb[2]), FSub(pb[9], pb[3])),
                     FMul(FSub(pb[6], pb[3]), FSub(pb[8], pb[2])))
          ny == FSub(FMul(FSub(pb[6], pb[3]), FSub(pb[7], pb[1])),
                     FMul(FSub(pb[4], pb[1]), FSub(pb[9], pb[3])))
          nz == FSub(FMul(FSub(pb[4], pb[1]), FSub(pb[8], pb[2])),
                     FMul(FSub(pb[5], pb[2]), FSub(pb[7], pb[1])))
      IN  << nx, ny, nz >> \o computeFaceNormals_once(SubSeq(pb, 10, Len(pb)))

\* computeFaceNormals (objParser.ts:86-131), one triangle of 9 numbers at a time
RECURSIVE computeFaceNormals(_)
computeFaceNormals(pb) ==
    IF Len(pb) < 9 THEN [ k \in 1..Len(pb) |-> 0 ]
    ELSE
      LET ux == FSub(pb[4], pb[1])
          uy == FSub(pb[5], pb[2])
          uz == FSub(pb[6], pb[3])
          vx == FSub(pb[7], pb[1])
          vy == FSub(pb[8], pb[2])
          vz == FSub(pb[9], pb[3])
          nx == FSub(FMul(uy, vz), FMul(uz, vy))
          ny == FSub(FMul(uz, vx), FMul(ux, vz))
          nz == FSub(FMul(ux, vy), FMul(uy, vx))
          h == FHypot(nx, ny, nz)
          length == IF IsNaN(h) \/ h = 0 THEN Milli ELSE h
          n == << FDiv(nx, length), FDiv(ny, length), FDiv(nz, length) >>
      IN  n \o n \o n \o computeFaceNormals(SubSeq(pb, 10, Len(pb)))

\* classification of a raw line (objParser.ts:24-39): "skip" for a blank
\* line, a comment or an unrecognised identifier
trimmed(k) == trim(lines[k])
\* the classification by the first character instead of the first token
kindOf_firstChar(line) ==
    IF line = << >> THEN "skip"
    ELSE IF line[1] = "#" THEN "skip"
    ELSE LET identifier == splitSpaces(line)[1]
         IN  IF identifier = <<"v", "n">> THEN "vn"
             ELSE IF identifier[1] = "v" THEN "v"
             ELSE IF identifier[1] = "f" THEN "f"
             ELSE "skip"

kindOf(line) ==
    IF line = << >> THEN "skip"
    ELSE IF line[1] = "#" THEN "skip"
    ELSE LET identifier == splitSpaces(line)[1]
         IN  IF identifier = <<"v">> THEN "v"
             ELSE IF identifier = <<"v", "n">> THEN "vn"
             ELSE IF identifier = <<"f">> THEN "f"
             ELSE "skip"

\* [parseFloat(x), parseFloat(y), parseFloat(z)] of `[, x, y, z] = segments`
triple(segments) ==
    << parseFloat(Segment(segments, 2)), parseFloat(Segment(segments, 3)),
       parseFloat(Segment(segments, 4)) >>

Parsing == parseStatus = "running" /\ lineNo <= Len(lines)

\* blank line, comment, or unrecognised identifier
lineIgnored ==
    /\ Parsing
    /\ kindOf(trimmed(lineNo)) = "skip"
    /\ lineNo' = lineNo + 1
    /\ UNCHANGED <<appVars, viewerVars, matVars, meshVars, source, lines, vertexPositions, vertexNormals,
                   positionBuffer, normalBuffer, parseStatus, result>>

lineVertex ==
    /\ Parsing
    /\ kindOf(trimmed(lineNo)) = "v"
    /\ vertexPositions' = Append(vertexPositions, triple(splitSpaces(trimmed(lineNo))))
    /\ lineNo' = lineNo + 1
    /\ UNCHANGED <<appVars, viewerVars, matVars, meshVars, source, lines, vertexNormals,
                   positionBuffer, normalBuffer, parseStatus, result>>

lineNormal ==
    /\ Parsing
    /\ kindOf(trimmed(lineNo)) = "vn"
    /\ vertexNormals' = Append(vertexNormals, triple(splitSpaces(trimmed(lineNo))))
    /\ lineNo' = lineNo + 1
    /\ UNCHANGED <<appVars, viewerVars, matVars, meshVars, source, lines, vertexPositions,
                   positionBuffer, normalBuffer, parseStatus, result>>

faceVerticesOf(segments) == [ k \in 1..(Len(segments) - 1) |-> parseFaceToken(segments[k + 1]) ]

lineFace ==
    /\ Parsing
    /\ kindOf(trimmed(lineNo)) = "f"
    /\ LET faceVertices == faceVerticesOf(splitSpaces(trimmed(lineNo)))
           out == emit(fanFrom(faceVertices, 1), vertexPositions, vertexNormals,
                       [positions |-> positionBuffer, normals |-> normalBuffer,
                        thrown |-> FALSE])
       IN  IF Len(faceVertices) < 3
           THEN /\ lineNo' = lineNo + 1
                /\ UNCHANGED <<positionBuffer, normalBuffer, parseStatus>>
           ELSE /\ positionBuffer' = out.positions
                /\ normalBuffer' = out.normals
                /\ IF out.thrown
                   THEN parseStatus' = "thrown" /\ UNCHANGED lineNo
                   ELSE lineNo' = lineNo + 1 /\ UNCHANGED parseStatus
    /\ UNCHANGED <<appVars, viewerVars, matVars, meshVars, source, lines, vertexPositions, vertexNormals, result>>

\* the return of parseOBJ with the normals synthesized unconditionally
parseReturn_always ==
    /\ parseStatus = "running" /\ lineNo > Len(lines)
    /\ normalBuffer' = computeFaceNormals(positionBuffer)
    /\ result' = [ positions |-> toFloat32Array(positionBuffer),
                   normals |-> toFloat32Array(computeFaceNormals(positionBuffer)) ]
    /\ parseStatus' = "returned"
    /\ UNCHANGED <<appVars, viewerVars, matVars, meshVars, source, lines, lineNo, vertexPositions,
                   vertexNormals, positionBuffer>>

\* after the loop (objParser.ts:68-76)
parseReturn ==
    /\ parseStatus = "running" /\ lineNo > Len(lines)
    /\ LET nb == IF \E k \in DOMAIN normalBuffer : normalBuffer[k] # 0
                 THEN normalBuffer
                 ELSE computeFaceNormals(positionBuffer)
       IN  /\ normalBuffer' = nb
           /\ result' = [ positions |-> toFloat32Array(positionBuffer),
                          normals |-> toFloat32Array(nb) ]
    /\ parseStatus' = "returned"
    /\ UNCHANGED <<appVars, viewerVars, matVars, meshVars, source, lines, lineNo, vertexPositions,
                   vertexNormals, positionBuffer>>

\* the line loop of parseOBJ as a function of the lines still to read
\* (objParser.ts:23-66); st = [vps, vns, positions, normals, thrown]
RECURSIVE parseLines(_, _)
parseLines(ls, st) ==
    IF ls = << >> \/ st.thrown THEN st
    ELSE
      LET line == trim(Head(ls))
          kind == kindOf(line)
          segments == splitSpaces(line)
      IN  IF kind = "v"
          THEN parseLines(Tail(ls), [ st EXCEPT !.vps = Append(@, triple(segments)) ])
          ELSE IF kind = "vn"
          THEN parseLines(Tail(ls), [ st EXCEPT !.vns = Append(@, triple(segments)) ])
          ELSE IF kind = "f" /\ Len(segments) - 1 >= 3
          THEN LET out == emit(fanFrom(faceVerticesOf(segments), 1), st.vps, st.vns,
                               [positions |-> st.positions, normals |-> st.normals,
                                thrown |-> FALSE])
               IN  parseLines(Tail(ls), [ st EXCEPT !.positions = out.positions,
                                                    !.normals = out.normals,
                                                    !.thrown = out.thrown ])
          ELSE parseLines(Tail(ls), st)

\* parseOBJ of a text given by its lines, as the outcome it has for the
\* caller: the returned buffers, or the throw (objParser.ts:15-77)
parseOBJ(ls) ==
    LET st == parseLines(ls, [vps |-> << >>, vns |-> << >>, positions |-> << >>,
                              normals |-> << >>, thrown |-> FALSE])
        nb == IF \E k \in DOMAIN st.normals : st.normals[k] # 0
              THEN st.normals
              ELSE computeFaceNormals(st.positions)
    IN  IF st.thrown
        THEN [status |-> "thrown", positions |-> << >>, normals |-> << >>]
        ELSE [status |-> "returned", positions |-> toFloat32Array(st.positions),
              normals |-> toFloat32Array(nb)]

----------------------------------------------------------------------------
(* objParser.ts: Mat4 operations.  A Float32Array(16) and a Vec3 are objects:
   the functions receive and return their addresses in heap, so that a write
   through an argument and a result that is one of the arguments show in the
   model.  Each operator returns the heap after the call and the address
   returned. *)

\* `new Float32Array(16)`: a zero-filled array at a new address
NewFloat32Array(h) == Append(h, [ i \in 1..16 |-> 0 ])

\* `out[i] = v` for each <<i, v>> of ws, in order (i counts from 0)
RECURSIVE Writes(_, _, _)
Writes(h, out, ws) ==
    IF ws = << >> THEN h
    ELSE Writes([ h EXCEPT ![out][Head(ws)[1] + 1] = fround(Head(ws)[2]) ], out, Tail(ws))

createIdentity(h) ==
    LET out == Len(h) + 1
    IN  [ heap |-> Writes(NewFloat32Array(h), out,
                          << <<0, Milli>>, <<5, Milli>>, <<10, Milli>>, <<15, Milli>> >>),
          ret |-> out ]

\* Math.tan of a whole number of degrees
TanDeg(d) == FDiv(SinDeg(d), CosDeg(d))

\* fov is given in degrees, and is even
perspective(h, fov, aspect, near, far) ==
    LET f == FDiv(Milli, TanDeg(fov \div 2))
        nf == FDiv(Milli, near - far)
        out == Len(h) + 1
    IN  [ heap |-> Writes(NewFloat32Array(h), out,
                          << <<0, FDiv(f, aspect)>>,
                             <<5, f>>,
                             <<10, FMul(far + near, nf)>>,
                             <<11, 0 - Milli>>,
                             <<14, FMul(FMul(FMul(2 * Milli, far), near), nf)>> >>),
          ret |-> out ]

\* a vector divided by its length, or the given vector when the length is 0
Normalized(v, whenZero) ==
    LET len == FHypot(v[1], v[2], v[3])
    IN  IF len = 0 THEN whenZero
        ELSE << FDiv(v[1], len), FDiv(v[2], len), FDiv(v[3], len) >>

Cross(u, v) ==
    << FMul(u[2], v[3]) - FMul(u[3], v[2]),
       FMul(u[3], v[1]) - FMul(u[1], v[3]),
       FMul(u[1], v[2]) - FMul(u[2], v[1]) >>

Dot(u, v) == FMul(u[1], v[1]) + FMul(u[2], v[2]) + FMul(u[3], v[3])

\* eye, target, up are addresses of Vec3 arrays
lookAt(h, eye, target, up) ==
    LET e == h[eye]
        t == h[target]
        u == h[up]
        z == Normalized(<< e[1] - t[1], e[2] - t[2], e[3] - t[3] >>, <<0, 0, Milli>>)
        x == Normalized(Cross(u, z), Vec3Zero)
        y == Normalized(Cross(z, x), Vec3Zero)
        out == Len(h) + 1
    IN  [ heap |-> Writes(NewFloat32Array(h), out,
                          << <<0, x[1]>>, <<1, y[1]>>, <<2, z[1]>>, <<3, 0>>,
                             <<4, x[2]>>, <<5, y[2]>>, <<6, z[2]>>, <<7, 0>>,
                             <<8, x[3]>>, <<9, y[3]>>, <<10, z[3]>>, <<11, 0>>,
                             <<12, 0 - Dot(x, e)>>, <<13, 0 - Dot(y, e)>>,
                             <<14, 0 - Dot(z, e)>>, <<15, Milli>> >>),
          ret |-> out ]

\* out[4c + r] = a0r * bc0 + a1r * bc1 + a2r * bc2 + a3r * bc3, where aXY is
\* a[4X + Y]: every element of a and b is read into a local before the
\* first write
MultiplyWrites(A, B) ==
    [ n \in 1..16 |->
        LET c == (n - 1) \div 4
            r == (n - 1) % 4
        IN  << n - 1,
               FMul(A[r + 1], B[4 * c + 1]) + FMul(A[4 + r + 1], B[4 * c + 2])
                 + FMul(A[8 + r + 1], B[4 * c + 3]) + FMul(A[12 + r + 1], B[4 * c + 4]) >> ]

\* multiply with the two factors exchanged
multiply_reversed(h, a, b) ==
    LET out == Len(h) + 1
    IN  [ heap |-> Writes(NewFloat32Array(h), out, MultiplyWrites(h[b], h[a])), ret |-> out ]

\* multiply that stores the product in its first argument and returns it
multiply_inPlace(h, a, b) ==
    [ heap |-> Writes(h, a, MultiplyWrites(h[a], h[b])), ret |-> a ]

multiply(h, a, b) ==
    LET out == Len(h) + 1
    IN  [ heap |-> Writes(NewFloat32Array(h), out, MultiplyWrites(h[a], h[b])), ret |-> out ]

\* angle is given in degrees
rotationY(h, angle) ==
    LET r == createIdentity(h)
        c == CosDeg(angle)
        sn == SinDeg(angle)
    IN  [ heap |-> Writes(r.heap, r.ret, << <<0, c>>, <<2, sn>>, <<8, 0 - sn>>, <<10, c>> >>),
          ret |-> r.ret ]

rotationX(h, angle) ==
    LET r == createIdentity(h)
        c == CosDeg(angle)
        sn == SinDeg(angle)
    IN  [ heap |-> Writes(r.heap, r.ret, << <<5, c>>, <<6, 0 - sn>>, <<9, sn>>, <<10, c>> >>),
          ret |-> r.ret ]

scale(h, x, y, z) ==
    LET r == createIdentity(h)
    IN  [ heap |-> Writes(r.heap, r.ret, << <<0, x>>, <<5, y>>, <<10, z>> >>), ret |-> r.ret ]

translation(h, x, y, z) ==
    LET r == createIdentity(h)
    IN  [ heap |-> Writes(r.heap, r.ret, << <<12, x>>, <<13, y>>, <<14, z>> >>), ret |-> r.ret ]

\* ---- a caller of the matrix functions

\* the Vec3 arrays the caller holds from the start; each can be passed as
\* eye, as target and as up
Vectors == << <<0, 0, 5 * Milli>>, <<0, Milli, 0>> >>
Vec3s(h) == { a \in DOMAIN h : Len(h[a]) = 3 }
Mat4s(h) == { a \in DOMAIN h : Len(h[a]) = 16 }

\* arguments the caller passes (a bounded choice of them)
ScaleArgs == { <<2 * Milli, 2 * Milli, 2 * Milli>>, <<Milli, 2 * Milli, 0 - Milli>> }
TranslationArgs == { <<Milli, 2 * Milli, 3 * Milli>> }
RotationArgs == { 0, 90 }
PerspectiveArgs == { <<60, Milli, 100, 100 * Milli>> }

NoCall == [op |-> "none", args |-> << >>, ret |-> 0]

MatIdle == heap = << >> /\ call = NoCall

CanCall == Len(heap) < Len(Vectors) + MaxMats

\* the call `op(args)` returned r
Called(op, args, r) ==
    /\ CanCall
    /\ heap' = r.heap
    /\ call' = [op |-> op, args |-> args, ret |-> r.ret]
    /\ UNCHANGED <<appVars, viewerVars, parseVars, meshVars>>

callCreateIdentity == Called("createIdentity", << >>, createIdentity(heap))
callPerspective ==
    \E p \in PerspectiveArgs : Called("perspective", << >>, perspective(heap, p[1], p[2], p[3], p[4]))
callLookAt ==
    \E eye, target, up \in Vec3s(heap) :
        Called("lookAt", <<eye, target, up>>, lookAt(heap, eye, target, up))
callMultiply ==
    \E a, b \in Mat4s(heap) : Called("multiply", <<a, b>>, multiply(heap, a, b))
callRotationY == \E angle \in RotationArgs : Called("rotationY", << >>, rotationY(heap, angle))
callRotationX == \E angle \in RotationArgs : Called("rotationX", << >>, rotationX(heap, angle))
callScale == \E v \in ScaleArgs : Called("scale", << >>, scale(heap, v[1], v[2], v[3]))
callTranslation ==
    \E v \in TranslationArgs : Called("translation", << >>, translation(heap, v[1], v[2], v[3]))


----------------------------------------------------------------------------
(* HavokViewer.tsx: loadNormalizedMesh and normalizeMesh.  A mesh is its
   vertex positions in local space and its scaling; an imported mesh has no
   parent, no rotation and position 0, so that its world matrix is its
   scaling. *)

MinOf(S) == CHOOSE x \in S : \A y \in S : x <= y
MaxOf(S) == CHOOSE x \in S : \A y \in S : x >= y
Axis(positions, a) == { positions[k][a] : k \in DOMAIN positions }

\* mesh.getBoundingInfo().boundingBox: center and extendSize (the half
\* extents) of the local-space box, kept up to date with the vertex data
boundingBox(positions) ==
    LET minimum == [ a \in 1..3 |-> MinOf(Axis(positions, a)) ]
        maximum == [ a \in 1..3 |-> MaxOf(Axis(positions, a)) ]
    IN  [ center |-> [ a \in 1..3 |-> (maximum[a] + minimum[a]) \div 2 ],
          extendSize |-> [ a \in 1..3 |-> (maximum[a] - minimum[a]) \div 2 ] ]

\* mesh.bakeTransformIntoVertices(Matrix.Translation(x, y, z))
bakeTranslation(m, t) ==
    [ m EXCEPT !.positions =
        [ k \in DOMAIN @ |-> << @[k][1] + t[1], @[k][2] + t[2], @[k][3] + t[3] >> ] ]

\* normalizeMesh with the scale taken from the full extent of the box
normalizeMesh_fullExtent(m) ==
    LET center == boundingBox(m.positions).center
        baked == bakeTranslation(m, << 0 - center[1], 0 - center[2], 0 - center[3] >>)
        extend == boundingBox(baked.positions).extendSize
        largest == 2 * MaxOf({ extend[1], extend[2], extend[3] })
        maxExtent == IF largest = 0 THEN Milli ELSE largest
        uniformScale == FDiv(Milli, maxExtent)
    IN  [ baked EXCEPT !.scaling = << uniformScale, uniformScale, uniformScale >> ]

normalizeMesh(m) ==
    LET center == boundingBox(m.positions).center
        baked == bakeTranslation(m, << 0 - center[1], 0 - center[2], 0 - center[3] >>)
        extend == boundingBox(baked.positions).extendSize
        largest == MaxOf({ extend[1], extend[2], extend[3] })
        maxExtent == IF largest = 0 THEN Milli ELSE largest
        uniformScale == FDiv(Milli, maxExtent)
    IN  [ baked EXCEPT !.scaling = << uniformScale, uniformScale, uniformScale >> ]

\* the vertices as the world matrix places them
worldPositions(m) ==
    [ k \in DOMAIN m.positions |->
        << FMul(m.positions[k][1], m.scaling[1]),
           FMul(m.positions[k][2], m.scaling[2]),
           FMul(m.positions[k][3], m.scaling[3]) >> ]

\* ---- the meshes an import can deliver (a bounded choice of them)
MeshCoordinates == { 0 - Milli, 0, 3 * Milli }
MeshVertices == { <<x, y, z>> : x, y, z \in MeshCoordinates }
ImportedMeshes ==
    { [ positions |-> ps, scaling |-> << Milli, Milli, Milli >> ] :
        ps \in UNION { [1..n -> MeshVertices] : n \in 1..MaxVerts } }
\* BASE_MODELS / PRIMARY_MODELS scale
ScaleMultipliers == { Milli, 16 * Milli }

NoMesh == [ positions |-> << >>, scaling |-> << Milli, Milli, Milli >> ]
MeshIdle == mesh = NoMesh /\ meshStatus = "none"

\* loadNormalizedMesh up to the call of normalizeMesh, and the call
meshNormalized ==
    /\ meshStatus = "imported"
    /\ mesh' = normalizeMesh(mesh)
    /\ meshStatus' = "normalized"
    /\ UNCHANGED <<appVars, viewerVars, parseVars, matVars>>

\* the rest of loadNormalizedMesh: scaling.multiplyByFloats(scaleMultiplier, ..)
meshScaled ==
    /\ meshStatus = "normalized"
    /\ \E scaleMultiplier \in ScaleMultipliers :
          mesh' = [ mesh EXCEPT !.scaling = << FMul(@[1], scaleMultiplier),
                                              FMul(@[2], scaleMultiplier),
                                              FMul(@[3], scaleMultiplier) >> ]
    /\ meshStatus' = "loaded"
    /\ UNCHANGED <<appVars, viewerVars, parseVars, matVars>>

----------------------------------------------------------------------------
(* Parser variables are idle under Spec *)

ParseIdle ==
    /\ source = << >> /\ lines = << >> /\ lineNo = 0
    /\ vertexPositions = << >> /\ vertexNormals = << >>
    /\ positionBuffer = << >> /\ normalBuffer = << >>
    /\ parseStatus = "idle"
    /\ result = [positions |-> << >>, normals |-> << >>]

----------------------------------------------------------------------------
(* App + viewer actions *)

ViewerInit ==
    /\ primaryModel = "squirrel"
    /\ isRunning = FALSE
    /\ sessionKey = 0
    /\ launchAngle = 0
    /\ launchElevation = DEFAULT_LAUNCH_ELEVATION
    /\ launchSpeed = DEFAULT_LAUNCH_SPEED
    /\ sessions = << NewSession(0, FALSE, 0, DEFAULT_LAUNCH_ELEVATION,
                                DEFAULT_LAUNCH_SPEED) >>
    /\ timers = << >>
    /\ alerts = << >>
    /\ uncaught = FALSE

Init == ViewerInit /\ ParseIdle /\ MatIdle /\ MeshIdle

\* The viewer's key changed: React unmounts the old instance (its effect
\* cleanup runs) and mounts a new one with the new props.
Remount(run) ==
    sessions' = Append([sessions EXCEPT ![Live] = cleanup(sessions[Live])],
                       NewSession(sessionKey + 1, run, launchAngle, launchElevation,
                                  launchSpeed))

\* key={`${primaryModel}-${sessionKey}`} (App.tsx:109)
viewerKey(model, key) == model \o "-" \o ToString(key)

\* resetViewer without the increment of sessionKey: the viewer is remounted
\* only if the key changes through the model
resetViewer_sameKey(nextModel) ==
    /\ Len(sessions) < MaxSessions
    /\ isRunning' = FALSE
    /\ primaryModel' = nextModel
    /\ IF nextModel # primaryModel
       THEN sessions' = Append([sessions EXCEPT ![Live] = cleanup(sessions[Live])],
                               NewSession(sessionKey, FALSE, launchAngle, launchElevation,
                                          launchSpeed))
       ELSE UNCHANGED sessions
    /\ UNCHANGED <<sessionKey, launchAngle, launchElevation, launchSpeed, timers, alerts,
                   uncaught, parseVars, matVars, meshVars>>

\* App.tsx:18-22, model button onClick
resetViewer(nextModel) ==
    /\ Len(sessions) < MaxSessions
    /\ isRunning' = FALSE
    /\ sessionKey' = sessionKey + 1
    /\ primaryModel' = nextModel
    /\ Remount(FALSE)
    /\ UNCHANGED <<launchAngle, launchElevation, launchSpeed, timers, alerts, uncaught, parseVars, matVars, meshVars>>

\* App.tsx:24-27, Start button (disabled while running)
handleStart ==
    /\ Len(sessions) < MaxSessions
    /\ ~isRunning
    /\ isRunning' = TRUE
    /\ sessionKey' = sessionKey + 1
    /\ Remount(TRUE)
    /\ UNCHANGED <<primaryModel, launchAngle, launchElevation, launchSpeed,
                   timers, alerts, uncaught, parseVars, matVars, meshVars>>

\* launchPositionEffect without its early return for a running session
launchPositionEffect_whileRunning(s, run, angle, elevation) ==
    IF ~s.sphereMeshRef THEN s
    ELSE [ s EXCEPT !.sphere.position = computeLaunchPosition(angle, elevation) ]

\* effect [launchAngle, launchElevation, running] (HavokViewer.tsx:252-263)
launchPositionEffect(s, run, angle, elevation) ==
    IF run THEN s
    ELSE IF ~s.sphereMeshRef THEN s
    ELSE [ s EXCEPT !.sphere.position = computeLaunchPosition(angle, elevation) ]

\* effect [launchSpeed, running] (HavokViewer.tsx:265-274)
launchSpeedEffect(s, run) ==
    IF run THEN s
    ELSE IF ~s.sphereAggregateRef THEN s
    ELSE [ s EXCEPT !.sphere.velocity = Vec3Zero ]

\* number of launch sliders away from their initial value (App.tsx:12-14)
Moved(a, e, v) ==
    (IF a # 0 THEN 1 ELSE 0) + (IF e # DEFAULT_LAUNCH_ELEVATION THEN 1 ELSE 0)
    + (IF v # DEFAULT_LAUNCH_SPEED THEN 1 ELSE 0)

\* App.tsx:62-70, launch angle slider
setLaunchAngle(a) ==
    /\ a # launchAngle
    /\ Moved(a, launchElevation, launchSpeed) <= MaxMoved
    /\ launchAngle' = a
    /\ sessions' = [sessions EXCEPT
                      ![Live] = launchPositionEffect(@, isRunning, a, launchElevation)]
    /\ UNCHANGED <<primaryModel, isRunning, sessionKey, launchElevation, launchSpeed,
                   timers, alerts, uncaught, parseVars, matVars, meshVars>>

\* App.tsx:75-83, launch elevation slider
setLaunchElevation(e) ==
    /\ e # launchElevation
    /\ Moved(launchAngle, e, launchSpeed) <= MaxMoved
    /\ launchElevation' = e
    /\ sessions' = [sessions EXCEPT
                      ![Live] = launchPositionEffect(@, isRunning, launchAngle, e)]
    /\ UNCHANGED <<primaryModel, isRunning, sessionKey, launchAngle, launchSpeed,
                   timers, alerts, uncaught, parseVars, matVars, meshVars>>

\* App.tsx:88-96, launch speed slider
setLaunchSpeed(v) ==
    /\ v # launchSpeed
    /\ Moved(launchAngle, launchElevation, v) <= MaxMoved
    /\ launchSpeed' = v
    /\ sessions' = [sessions EXCEPT ![Live] = launchSpeedEffect(@, isRunning)]
    /\ UNCHANGED <<primaryModel, isRunning, sessionKey, launchAngle, launchElevation,
                   timers, alerts, uncaught, parseVars, matVars, meshVars>>

\* `await HavokPhysics(...)` resolves: enablePhysics, then the three
\* loadNormalizedMesh calls are issued (HavokViewer.tsx:106-120)
havokResolved(i) ==
    /\ sessions[i].pc = "awaitHavok"
    /\ sessions' = [sessions EXCEPT ![i].pc = "awaitMeshes", ![i].physicsEnabled = TRUE]
    /\ UNCHANGED <<appVars, timers, alerts, uncaught, parseVars, matVars, meshVars>>

\* `await HavokPhysics(...)` rejects
havokRejected(i, err) ==
    /\ sessions[i].pc = "awaitHavok"
    /\ sessions' = [sessions EXCEPT ![i] = catch(@, err)]
    /\ UNCHANGED <<appVars, timers, alerts, uncaught, parseVars, matVars, meshVars>>

\* `await Promise.all([...])` of the three loadNormalizedMesh calls fulfils
\* (HavokViewer.tsx:112-120) and bootstrap runs on to its end or to a throw
meshesLoaded(i, throw) ==
    /\ sessions[i].pc = "awaitMeshes"
    /\ throw = "launch" => sessions[i].running
    /\ sessions' = [sessions EXCEPT
          ![i] = bootstrapRest([ @ EXCEPT !.meshes = TRUE ], throw)]
    /\ UNCHANGED <<appVars, timers, alerts, uncaught, parseVars, matVars, meshVars>>

\* one loadNormalizedMesh promise rejects (the import fails, or mergeMeshes
\* throws): Promise.all rejects at once, the other loads are not awaited
meshFailed(i) ==
    /\ sessions[i].pc = "awaitMeshes"
    /\ sessions' = [sessions EXCEPT ![i] = catch(@, LoadError)]
    /\ UNCHANGED <<appVars, timers, alerts, uncaught, parseVars, matVars, meshVars>>

\* onCollision without the look-up in the ledger
onCollision_unchecked(i, against, st) ==
    LET hitP == against = "primary"
        hitG == against = "plane"
        t1 == IF hitP THEN Append(st[2], [session |-> i, key |-> "primary"]) ELSE st[2]
        t2 == IF hitG THEN Append(t1, [session |-> i, key |-> "plane"]) ELSE t1
    IN  << st[1] \cup (IF hitP THEN {"primary"} ELSE {})
                 \cup (IF hitG THEN {"plane"} ELSE {}),
           t2 >>

\* collision observer callback (HavokViewer.tsx:183-198) for one event,
\* on the pair <<triggered set, timers>>
onCollision(i, against, st) ==
    LET hitP == against = "primary" /\ "primary" \notin st[1]
        hitG == against = "plane" /\ "plane" \notin st[1]
        t1 == IF hitP THEN Append(st[2], [session |-> i, key |-> "primary"]) ELSE st[2]
        t2 == IF hitG THEN Append(t1, [session |-> i, key |-> "plane"]) ELSE t1
    IN  << st[1] \cup (IF hitP THEN {"primary"} ELSE {})
                 \cup (IF hitG THEN {"plane"} ELSE {}),
           t2 >>

\* bodies the sphere can be reported to collide with
Colliders == {"primary", "plane", "other"}

\* collisionObserved with window.alert called by the observer itself
collisionObserved_immediate(i, against) ==
    LET s == sessions[i]
        oc == onCollision(i, against, <<s.triggered, alerts>>)
    IN  /\ s.renderLoop
        /\ ~s.sceneDisposed
        /\ "collision" \in s.listeners
        /\ sessions' = [sessions EXCEPT ![i].triggered = oc[1]]
        /\ alerts' = oc[2]
        /\ UNCHANGED <<appVars, timers, uncaught, parseVars, matVars, meshVars>>

\* the physics step reports a collision of the sphere: the collision
\* observable calls the registered observer (HavokViewer.tsx:179-201)
collisionObserved(i, against) ==
    LET s == sessions[i]
        oc == onCollision(i, against, <<s.triggered, timers>>)
    IN  /\ s.renderLoop
        /\ ~s.sceneDisposed
        /\ "collision" \in s.listeners
        /\ sessions' = [sessions EXCEPT ![i].triggered = oc[1]]
        /\ timers' = oc[2]
        /\ UNCHANGED <<appVars, alerts, uncaught, parseVars, matVars, meshVars>>

\* render-loop callback (HavokViewer.tsx:217-222) on a disposed scene:
\* it returns before scene.render()
frameSkipped(i) ==
    /\ sessions[i].renderLoop
    /\ sessions[i].sceneDisposed
    /\ UNCHANGED vars

\* render-loop callback, scene.render() throws: nothing catches it
frameThrows(i) ==
    /\ sessions[i].renderLoop
    /\ ~sessions[i].sceneDisposed
    /\ uncaught' = TRUE
    /\ UNCHANGED <<appVars, sessions, timers, alerts, parseVars, matVars, meshVars>>

\* the render-loop callback without its test of scene.isDisposed
frame_unchecked(i, out) ==
    LET s == sessions[i]
    IN  /\ s.renderLoop
        /\ s.sphere.mass = 0 => out = IdleOutcome
        /\ sessions' = [sessions EXCEPT
              ![i] = IF s.sphere.mass > 0
                     THEN [ s EXCEPT !.sphere.position = out.position,
                                     !.sphere.velocity = out.velocity ]
                     ELSE s ]
        /\ UNCHANGED <<appVars, timers, alerts, uncaught, parseVars, matVars, meshVars>>

\* render-loop callback, scene.render() steps the physics engine, which
\* moves a body of non-zero mass
frame(i, out) ==
    LET s == sessions[i]
    IN  /\ s.renderLoop
        /\ ~s.sceneDisposed
        /\ s.sphere.mass = 0 => out = IdleOutcome
        /\ sessions' = [sessions EXCEPT
              ![i] = IF s.sphere.mass > 0
                     THEN [ s EXCEPT !.sphere.position = out.position,
                                     !.sphere.velocity = out.velocity ]
                     ELSE s ]
        /\ UNCHANGED <<appVars, timers, alerts, uncaught, parseVars, matVars, meshVars>>

\* a zero-delay timer fires: window.alert (HavokViewer.tsx:186-196)
timerFired ==
    /\ timers # << >>
    /\ alerts' = Append(alerts, Head(timers))
    /\ timers' = Tail(timers)
    /\ UNCHANGED <<appVars, sessions, uncaught, parseVars, matVars, meshVars>>

Next ==
    \/ \E m \in Models : resetViewer(m)
    \/ handleStart
    \/ \E a \in Angles : setLaunchAngle(a)
    \/ \E e \in Elevations : setLaunchElevation(e)
    \/ \E v \in Speeds : setLaunchSpeed(v)
    \/ \E i \in DOMAIN sessions : havokResolved(i)
    \/ \E i \in DOMAIN sessions, err \in Thrown : havokRejected(i, err)
    \/ \E i \in DOMAIN sessions, t \in ThrowChoices : meshesLoaded(i, t)
    \/ \E i \in DOMAIN sessions : meshFailed(i)
    \/ \E i \in DOMAIN sessions : frameSkipped(i)
    \/ \E i \in DOMAIN sessions : frameThrows(i)
    \/ \E i \in DOMAIN sessions, out \in SimOutcomes : frame(i, out)
    \/ \E i \in DOMAIN sessions, c \in Colliders : collisionObserved(i, c)
    \/ timerFired

Spec == Init /\ [][Next]_vars

----------------------------------------------------------------------------
(* parseOBJ over bounded input texts *)

MaxBody == 2        \* free lines following the vertex block of a text

Sp == <<" ">>
Words2(a, b) == a \o Sp \o b
Words3(a, b, c) == a \o Sp \o b \o Sp \o c
Words4(a, b, c, d) == Words3(a, b, c) \o Sp \o d
Words5(a, b, c, d, e) == Words4(a, b, c, d) \o Sp \o e

LV1 == Words4(<<"v">>, <<"0">>, <<"0">>, <<"0">>)
LV2 == Words4(<<"v">>, <<"1">>, <<"0">>, <<"0">>)
LV3 == Words4(<<"v">>, <<"0">>, <<"1">>, <<"0">>)
LV4 == Words4(<<"v">>, <<"0">>, <<"0">>, <<"1">>)
LVN1 == Words4(<<"v", "n">>, <<"0">>, <<"0">>, <<"1">>)
LVN0 == Words4(<<"v", "n">>, <<"0">>, <<"0">>, <<"0">>)
LF123 == Words4(<<"f">>, <<"1">>, <<"2">>, <<"3">>)
LF1234 == Words5(<<"f">>, <<"1">>, <<"2">>, <<"3">>, <<"4">>)
LFN == Words4(<<"f">>, <<"1", "/", "/", "1">>, <<"2", "/", "5", "/", "1">>, <<"3", "/", "/", "2">>)
LF0 == Words4(<<"f">>, <<"0">>, <<"1">>, <<"2">>)
LFNeg == Words4(<<"f">>, <<"1">>, <<"-", "1">>, <<"2">>)
LFx == Words4(<<"f">>, <<"1">>, <<"2">>, <<"x">>)
LF5 == Words4(<<"f">>, <<"1">>, <<"2">>, <<"5">>)
LF12 == Words3(<<"f">>, <<"1">>, <<"2">>)
LComment == Words2(<<"#">>, <<"c">>)
LBlank == << >>
LGroup == Words2(<<"g">>, <<"x">>)
\* leading blanks, a tab, a doubled blank, a fraction and a missing coordinate
LVRagged == <<" ", "\t">> \o <<"v">> \o Sp \o Sp \o <<"1", ".", "5">> \o Sp \o <<"-", "1">> \o Sp

VertexBlocks == { << >>, <<LV1, LV2, LV3>>, <<LV1, LV2, LV3, LV4>>,
                  <<LVN1, LV1, LV2, LV3, LV4>> }

BodyLines == { LV4, LVN1, LVN0, LF123, LF1234, LFN, LF0, LFNeg, LFx, LF5, LF12,
               LComment, LBlank, LGroup, LVRagged }

Bodies == UNION { [1..n -> BodyLines] : n \in 0..MaxBody }

LineBreaks == { <<"\n">>, <<"\r", "\n">> }

RECURSIVE Join(_, _)
Join(ls, eol) ==
    IF ls = << >> THEN << >>
    ELSE IF Len(ls) = 1 THEN ls[1]
    ELSE ls[1] \o eol \o Join(Tail(ls), eol)

Texts == { Join(b \o body, eol) : b \in VertexBlocks, body \in Bodies, eol \in LineBreaks }

InitParse ==
    /\ ViewerInit /\ MatIdle /\ MeshIdle
    /\ source \in Texts
    /\ lines = splitLines(source)
    /\ lineNo = 1
    /\ vertexPositions = << >> /\ vertexNormals = << >>
    /\ positionBuffer = << >> /\ normalBuffer = << >>
    /\ parseStatus = "running"
    /\ result = [positions |-> << >>, normals |-> << >>]

NextParse ==
    \/ lineIgnored
    \/ lineVertex
    \/ lineNormal
    \/ lineFace
    \/ parseReturn

SpecParse == InitParse /\ [][NextParse]_vars

\* ---- App's handlers and the bootstraps of the viewers they mount, without
\*      frames, from the initial render and from a later moment: Start has
\*      been pressed, and of the viewer instances only the one Start mounted
\*      is followed (the first one has been torn down)

AppStarted ==
    /\ primaryModel = "squirrel"
    /\ isRunning = TRUE
    /\ sessionKey = 1
    /\ launchAngle = 0
    /\ launchElevation = DEFAULT_LAUNCH_ELEVATION
    /\ launchSpeed = DEFAULT_LAUNCH_SPEED
    /\ sessions = << NewSession(1, TRUE, 0, DEFAULT_LAUNCH_ELEVATION,
                                DEFAULT_LAUNCH_SPEED) >>
    /\ timers = << >>
    /\ alerts = << >>
    /\ uncaught = FALSE

InitApp == (ViewerInit \/ AppStarted) /\ ParseIdle /\ MatIdle /\ MeshIdle

NextApp ==
    \/ \E m \in Models : resetViewer(m)
    \/ handleStart
    \/ \E a \in Angles : setLaunchAngle(a)
    \/ \E e \in Elevations : setLaunchElevation(e)
    \/ \E v \in Speeds : setLaunchSpeed(v)
    \/ \E i \in DOMAIN sessions : havokResolved(i)
    \/ \E i \in DOMAIN sessions, err \in Thrown : havokRejected(i, err)
    \/ \E i \in DOMAIN sessions, t \in ThrowChoices : meshesLoaded(i, t)
    \/ \E i \in DOMAIN sessions : meshFailed(i)

SpecApp == InitApp /\ [][NextApp]_vars

\* ---- the matrix functions alone

InitMat == ViewerInit /\ ParseIdle /\ MeshIdle /\ heap = Vectors /\ call = NoCall

NextMat ==
    \/ callCreateIdentity
    \/ callPerspective
    \/ callLookAt
    \/ callMultiply
    \/ callRotationY
    \/ callRotationX
    \/ callScale
    \/ callTranslation

SpecMat == InitMat /\ [][NextMat]_vars

\* ---- the loading of one mesh alone

InitMesh ==
    /\ ViewerInit /\ ParseIdle /\ MatIdle
    /\ mesh \in ImportedMeshes
    /\ meshStatus = "imported"

NextMesh ==
    \/ meshNormalized
    \/ meshScaled

SpecMesh == InitMesh /\ [][NextMesh]_vars

----------------------------------------------------------------------------
(* Properties of the viewer (checked under Spec) *)

Sessions == DOMAIN sessions

\* C1: once teardown has set a session's disposal flag, that session creates
\* no physics body, registers no listener or observer and starts no render
\* loop, however bootstrap and teardown interleave.
C1_NoMutationAfterDisposal ==
    [][ \A i \in Sessions :
          sessions[i].disposed =>
            /\ sessions'[i].sphere = sessions[i].sphere
            /\ sessions'[i].listeners = sessions[i].listeners
            /\ sessions'[i].renderLoop = sessions[i].renderLoop ]_vars

\* C2: after a session's teardown has run, none of its listeners or observers
\* (window resize listener, collision observer) is still registered.
C2_NoListenerAfterTeardown ==
    \A i \in Sessions : sessions[i].disposed => sessions[i].listeners = {}

InputsChanged ==
    <<primaryModel, isRunning, launchAngle, launchElevation, launchSpeed>>'
      # <<primaryModel, isRunning, launchAngle, launchElevation, launchSpeed>>
LaunchChanged ==
    <<launchAngle, launchElevation, launchSpeed>>'
      # <<launchAngle, launchElevation, launchSpeed>>
TornDownAndRebuilt ==
    /\ Len(sessions') = Len(sessions) + 1
    /\ sessions'[Live].disposed
    /\ sessions'[Live].sphere = sessions[Live].sphere
    /\ sessions'[Live + 1].pc = "awaitHavok"
    /\ ~sessions'[Live + 1].disposed

\* C3 (as claimed): a change of any input parameter tears the live session
\* down and constructs a new one, and leaves the old session's body position
\* and velocity unchanged.
C3_EveryChangeRebuilds ==
    [][ InputsChanged => TornDownAndRebuilt ]_vars

\* C3 (amended): a change of mesh choice or run flag tears the live session
\* down and constructs a new one, leaving the old body unchanged; a change of
\* launch angle, elevation or speed keeps the live session: while running it
\* changes nothing in it, while not running a change of angle or elevation
\* moves the bootstrapped idle body in place to the launch position of the
\* new values, and the body's velocity stays as it was.
C3_RebuildOrRepositionIdle ==
    [][ /\ (primaryModel' # primaryModel \/ isRunning' # isRunning) => TornDownAndRebuilt
        /\ LaunchChanged =>
             /\ Len(sessions') = Len(sessions)
             /\ \A i \in Sessions : i # Live => sessions'[i] = sessions[i]
             /\ isRunning => sessions'[Live] = sessions[Live]
             /\ sessions'[Live].sphere.velocity = sessions[Live].sphere.velocity
             /\ (~isRunning /\ sessions[Live].sphereMeshRef
                   /\ <<launchAngle, launchElevation>>' # <<launchAngle, launchElevation>>)
                  => sessions'[Live].sphere.position
                       = computeLaunchPosition(launchAngle', launchElevation') ]_vars

\* an idle body was moved in place by the angle slider, and its session was
\* later torn down by a remount that left the body where it was
C3_Witness ==
    /\ Len(sessions) >= 2
    /\ sessions[1].disposed /\ sessions[1].pc = "ready" /\ sessions[1].listeners = {}
    /\ sessions[1].sphere.position = computeLaunchPosition(90, DEFAULT_LAUNCH_ELEVATION)

\* C4: while not running, the bootstrapped idle body stands at the launch
\* position of the current launch angle and elevation.
C4_IdleBodyFollowsSliders ==
    (~isRunning /\ sessions[Live].sphere.created)
        => sessions[Live].sphere.position = computeLaunchPosition(launchAngle, launchElevation)

\* C5: every error raised in bootstrap or in a frame step is caught by the
\* session and surfaces as its error message: a session whose bootstrap has
\* failed has an error message, and no exception escapes a frame step.
C5_ErrorsSurface ==
    /\ \A i \in Sessions : sessions[i].pc = "failed" => sessions[i].error # NoError
    /\ ~uncaught

\* a step in which one of session i's mesh loads fails
MeshLoadFails(i) ==
    /\ sessions[i].pc = "awaitMeshes"
    /\ sessions'[i].pc = "failed"
    /\ ~sessions'[i].meshes

\* a failed session stays as it is: no body, no render loop, no retry, same error
FailedIsTerminal(i) ==
    sessions[i].pc = "failed" =>
        /\ sessions'[i].pc = "failed"
        /\ sessions'[i].meshes = sessions[i].meshes
        /\ sessions'[i].sphere = sessions[i].sphere
        /\ ~sessions'[i].renderLoop
        /\ sessions'[i].error = sessions[i].error

Scheduled(i, k) ==
    Cardinality({ n \in DOMAIN timers : timers[n] = [session |-> i, key |-> k] })
    + Cardinality({ n \in DOMAIN alerts : alerts[n] = [session |-> i, key |-> k] })

\* C7: in one run at most one "hit primary" and at most one "hit plane"
\* notification are scheduled, and a key added to the ledger is never removed.
C7_NotifyOnce ==
    /\ [](\A i \in Sessions : \A k \in {"primary", "plane"} : Scheduled(i, k) <= 1)
    /\ [][ \A i \in Sessions : sessions[i].triggered \subseteq sessions'[i].triggered ]_vars

\* both notifications of one run were scheduled, one of them already shown
C7_Witness ==
    \E i \in Sessions :
        /\ sessions[i].triggered = {"primary", "plane"}
        /\ Scheduled(i, "primary") = 1 /\ Scheduled(i, "plane") = 1
        /\ Len(alerts) = 1

----------------------------------------------------------------------------
(* Properties of parseOBJ (checked under SpecParse) *)

\* C8: whenever parseOBJ returns, positions and normals have the same length,
\* a multiple of 9.
C8_BuffersAligned ==
    parseStatus = "returned" =>
        /\ Len(result.positions) = Len(result.normals)
        /\ Len(result.positions) % 9 = 0

\* a returned mesh of two triangles whose normals are partly taken from the
\* text and partly zero-filled
C8_Witness ==
    /\ parseStatus = "returned"
    /\ Len(result.positions) = 18
    /\ \E k \in DOMAIN result.normals : result.normals[k] # 0
    /\ \E t \in 0..5 : \A c \in 1..3 : result.normals[3 * t + c] = 0

\* The vertex numbers written in the face lines of the input texts, read off
\* the text; NaN stands for a token that is not a number.
FaceRefs(line) ==
    CASE line = LF123 -> <<1, 2, 3>>
      [] line = LF1234 -> <<1, 2, 3, 4>>
      [] line = LFN -> <<1, 2, 3>>
      [] line = LF0 -> <<0, 1, 2>>
      [] line = LFNeg -> <<1, -1, 2>>
      [] line = LFx -> <<1, 2, NaN>>
      [] line = LF5 -> <<1, 2, 5>>
      [] OTHER -> << >>

\* the fan of a face with vertex numbers refs: triangle t (1 .. n-2) is
\* (v1, v_{t+1}, v_{t+2}); 9 numbers per triangle
Fan(refs, vps) ==
    [ k \in 1..(9 * (Len(refs) - 2)) |->
        LET t == ((k - 1) \div 9) + 1
            corner == ((k - 1) % 9) \div 3
            ref == IF corner = 0 THEN refs[1] ELSE refs[t + corner]
        IN  vps[ref][((k - 1) % 3) + 1] ]

\* C9: a face with n >= 3 vertex tokens v1..vn is emitted as the n-2
\* triangles (v1, v_i, v_{i+1}), i = 2..n-1, in that order.
C9_FanTriangulation ==
    [][ LET refs == FaceRefs(lines[lineNo])
        IN  (Parsing /\ Len(refs) >= 3
               /\ \A j \in DOMAIN refs : refs[j] \in 1..Len(vertexPositions))
            => /\ parseStatus' = "running"
               /\ positionBuffer' = positionBuffer \o Fan(refs, vertexPositions) ]_vars

\* `f 1 2 3 4` over four distinct vertices came out as (1,2,3), (1,3,4)
C9_Witness ==
    /\ parseStatus = "returned"
    /\ lines = <<LV1, LV2, LV3, LV4, LF1234>>
    /\ result.positions = << 0, 0, 0,  1000, 0, 0,  0, 1000, 0,
                             0, 0, 0,  0, 1000, 0,  0, 0, 1000 >>

\* C10: a face with at least 3 vertex tokens, one of which names no parsed
\* vertex line (0, negative, not a number, or beyond the vertex lines
\* parsed), makes parseOBJ fail without returning a mesh.
C10_MissingVertexFails ==
    [][ LET refs == FaceRefs(lines[lineNo])
        IN  (Parsing /\ Len(refs) >= 3
               /\ \E j \in DOMAIN refs : refs[j] \notin 1..Len(vertexPositions))
            => /\ parseStatus' = "thrown"
               /\ result' = result ]_vars

\* parsing stopped at `f 0 1 2` although three vertex lines had been parsed
C10_Witness ==
    /\ parseStatus = "thrown"
    /\ lines[lineNo] = LF0
    /\ Len(vertexPositions) >= 3

\* no line of the text is a face line
NoFaceFound == \A k \in DOMAIN lines : kindOf(trim(lines[k])) # "f"

\* C11: parseOBJ does not return a mesh for a text in which no face was found
\* and fewer than 3 vertices were parsed: it fails instead.
C11_DegenerateFails ==
    (NoFaceFound /\ Len(vertexPositions) < 3) => parseStatus # "returned"

\* the run of parseOBJ has ended, and how it ended for the caller
Finished == parseStatus \in {"returned", "thrown"}
Outcome == [status |-> parseStatus, positions |-> result.positions, normals |-> result.normals]

\* the lines with line i taken out and put back so that it becomes line j
MoveLine(ls, i, j) ==
    LET rest == SubSeq(ls, 1, i - 1) \o SubSeq(ls, i + 1, Len(ls))
    IN  SubSeq(rest, 1, j - 1) \o << ls[i] >> \o SubSeq(rest, j, Len(rest))

\* lines i and j are a face line and a place it can be moved to without
\* passing another face line
FaceMove(ls, i, j) ==
    /\ kindOf(trim(ls[i])) = "f"
    /\ \A k \in DOMAIN ls :
          ((i < k /\ k <= j) \/ (j <= k /\ k < i)) => kindOf(trim(ls[k])) # "f"

\* C12: moving a face line to another place among the `v` and `vn` lines of
\* the text leaves the outcome of parseOBJ unchanged.
C12_OrderIndependent ==
    Finished =>
        \A i, j \in DOMAIN lines :
            FaceMove(lines, i, j) => parseOBJ(MoveLine(lines, i, j)) = Outcome

\* some face vertex of the text carries a normal reference that names a `vn`
\* line read before it (nvn: the `vn` lines read so far)
RECURSIVE SuppliedIn(_, _)
SuppliedIn(ls, nvn) ==
    IF ls = << >> THEN FALSE
    ELSE
      LET line == trim(Head(ls))
          kind == kindOf(line)
          fv == faceVerticesOf(splitSpaces(line))
      IN  IF kind = "vn" THEN SuppliedIn(Tail(ls), nvn + 1)
          ELSE IF kind = "f" /\ Len(fv) >= 3
                  /\ \E k \in DOMAIN fv : fv[k].hasNormal /\ fv[k].normalIndex \in 0..(nvn - 1)
          THEN TRUE
          ELSE SuppliedIn(Tail(ls), nvn)

\* the flat normal of each triangle of pb on each of its 3 vertices: the
\* cross product (b - a) x (c - a), scaled to length 1 (left as it is when
\* its length is 0)
FlatNormals(pb) ==
    [ k \in 1..Len(pb) |->
        LET o == 9 * ((k - 1) \div 9)
            ux == FSub(pb[o + 4], pb[o + 1])
            uy == FSub(pb[o + 5], pb[o + 2])
            uz == FSub(pb[o + 6], pb[o + 3])
            vx == FSub(pb[o + 7], pb[o + 1])
            vy == FSub(pb[o + 8], pb[o + 2])
            vz == FSub(pb[o + 9], pb[o + 3])
            n == << FSub(FMul(uy, vz), FMul(uz, vy)),
                    FSub(FMul(uz, vx), FMul(ux, vz)),
                    FSub(FMul(ux, vy), FMul(uy, vx)) >>
            h == FHypot(n[1], n[2], n[3])
            c == n[((k - 1) % 3) + 1]
        IN  IF IsNaN(h) \/ h = 0 THEN c ELSE FDiv(c, h) ]

Returning == parseStatus = "running" /\ parseStatus' = "returned"

\* C13 (as claimed): if a normal was supplied to some face vertex the returned
\* normals are the parsed ones (zero where none was specified), and if none
\* was supplied every triangle gets its flat normal on all 3 vertices.
C13_FallbackWhenNoneSupplied ==
    [][ Returning =>
          result'.normals = IF SuppliedIn(lines, 0)
                            THEN toFloat32Array(normalBuffer)
                            ELSE toFloat32Array(FlatNormals(positionBuffer)) ]_vars

\* C13 (amended): the fallback is all-or-nothing and fires exactly when every
\* parsed normal component is zero (none specified, none resolved, or only
\* zero vectors supplied): then every triangle gets its flat normal on all 3
\* vertices; otherwise the returned normals are the parsed ones, zero where
\* none was specified.
C13_FallbackWhenAllZero ==
    [][ Returning =>
          result'.normals = IF \E k \in DOMAIN normalBuffer : normalBuffer[k] # 0
                            THEN toFloat32Array(normalBuffer)
                            ELSE toFloat32Array(FlatNormals(positionBuffer)) ]_vars

\* a face whose vertices reference the supplied normal `vn 0 0 0` came back
\* with the synthesized normal (0, 0, 1) on all 3 vertices
C13_Witness ==
    /\ parseStatus = "returned"
    /\ lines = <<LV1, LV2, LV3, LVN0, LFN>>
    /\ result.normals = << 0, 0, 1000,  0, 0, 1000,  0, 0, 1000 >>

\* lines the parser has to ignore: blank, blanks only, comments, and lines
\* whose first token is none of `v`, `vn`, `f`
LTexture == Words3(<<"v", "t">>, <<"0">>, <<"1">>)
LFaceLike == Words4(<<"f", "o">>, <<"1">>, <<"2">>, <<"3">>)
IgnorableLines == { LBlank, Sp \o <<"\t">>, LComment, Sp \o LComment, LGroup, LTexture, LFaceLike }

RemoveLine(ls, k) == SubSeq(ls, 1, k - 1) \o SubSeq(ls, k + 1, Len(ls))

\* what the loop of parseOBJ carries from one line to the next
Carried(vps, vns, pb, nb) ==
    [vps |-> vps, vns |-> vns, positions |-> pb, normals |-> nb, thrown |-> FALSE]

\* C14: blank lines, comment lines and lines whose first token is not `v`,
\* `vn` or `f` are ignored: wherever the parser stands in a text, a line of
\* this kind inserted there leaves everything it carries to the next line
\* unchanged, and removing such a line from a text leaves the outcome of
\* parseOBJ (the returned buffers or the raised error) unchanged.
C14_IgnorableLinesIgnored ==
    /\ parseStatus = "running" =>
          LET st == Carried(vertexPositions, vertexNormals, positionBuffer, normalBuffer)
          IN  \A line \in IgnorableLines : parseLines(<<line>>, st) = st
    /\ Finished =>
          \A k \in DOMAIN lines :
              trim(lines[k]) \in { trim(line) : line \in IgnorableLines }
                => parseOBJ(RemoveLine(lines, k)) = Outcome

\* a text with a comment between its vertices and its face returned the triangle
C14_Witness ==
    /\ parseStatus = "returned"
    /\ lines = <<LV1, LV2, LV3, LComment, LF123>>
    /\ result.positions = << 0, 0, 0,  1000, 0, 0,  0, 1000, 0 >>

\* the column vector M * v of a column-major 4x4 matrix and a 4-vector
Transform(M, v) ==
    [ r \in 1..4 |-> FMul(M[r], v[1]) + FMul(M[4 + r], v[2])
                       + FMul(M[8 + r], v[3]) + FMul(M[12 + r], v[4]) ]

Coordinates == { 0 - Milli, 0, 2 * Milli }
Points == { <<x, y, z, Milli>> : x, y, z \in Coordinates }

\* every element is a whole number, so that products and sums are exact
Whole(M) == \A i \in DOMAIN M : M[i] % Milli = 0

IdentityMatrix == << Milli, 0, 0, 0,  0, Milli, 0, 0,  0, 0, Milli, 0,  0, 0, 0, Milli >>
TranslationMatrix(t) ==
    << Milli, 0, 0, 0,  0, Milli, 0, 0,  0, 0, Milli, 0,  t[1], t[2], t[3], Milli >>
UniformScaleMatrix(k) == << k, 0, 0, 0,  0, k, 0, 0,  0, 0, k, 0,  0, 0, 0, Milli >>

MultiplyReturned == call'.op = "multiply" /\ heap' # heap

\* C15: multiply(A, B) applies B first and then A: it maps every point p to
\* A * (B * p) (checked where the arithmetic is exact, on matrices of whole
\* numbers); multiply(translation(t), scale(s, s, s)) maps p to s * p + t;
\* and the identity matrix is a left and a right identity of multiply.
C15_MultiplyComposes ==
    [][ MultiplyReturned =>
          LET A == heap[call'.args[1]]
              B == heap[call'.args[2]]
              out == heap'[call'.ret]
          IN  /\ (Whole(A) /\ Whole(B)) =>
                    \A p \in Points : Transform(out, p) = Transform(A, Transform(B, p))
              /\ \A t \in TranslationArgs : \A k \in {2 * Milli, 3 * Milli} :
                    (A = TranslationMatrix(t) /\ B = UniformScaleMatrix(k)) =>
                        \A p \in Points :
                            Transform(out, p) = << FMul(k, p[1]) + t[1], FMul(k, p[2]) + t[2],
                                                   FMul(k, p[3]) + t[3], Milli >>
              /\ A = IdentityMatrix => out = B
              /\ B = IdentityMatrix => out = A ]_vars

\* multiply(translation(1, 2, 3), scale(2, 2, 2)) has returned the matrix
\* that doubles a point and then moves it by (1, 2, 3)
C15_Witness ==
    /\ call.op = "multiply"
    /\ heap[call.args[1]] = TranslationMatrix(<<Milli, 2 * Milli, 3 * Milli>>)
    /\ heap[call.args[2]] = UniformScaleMatrix(2 * Milli)
    /\ heap[call.ret] = << 2 * Milli, 0, 0, 0,  0, 2 * Milli, 0, 0,  0, 0, 2 * Milli, 0,
                            Milli, 2 * Milli, 3 * Milli, Milli >>

\* C16: every matrix function is pure: a call leaves every array that
\* existed before it unchanged (its matrix and vector arguments among them)
\* and returns a newly allocated Float32Array(16), which is therefore none
\* of its arguments, also when multiply is given the same matrix twice.
C16_OperationsPure ==
    [][ (heap' # heap \/ call' # call) =>
          /\ \A a \in DOMAIN heap : a \in DOMAIN heap' /\ heap'[a] = heap[a]
          /\ call'.ret \notin DOMAIN heap
          /\ call'.ret \in DOMAIN heap'
          /\ Len(heap'[call'.ret]) = 16
          /\ \A k \in DOMAIN call'.args : call'.args[k] # call'.ret ]_vars

\* multiply(m, m) of the matrix m = scale(2, 2, 2) has returned the square of
\* m at another address, and m is still scale(2, 2, 2)
C16_Witness ==
    /\ call.op = "multiply"
    /\ call.args[1] = call.args[2]
    /\ call.ret # call.args[1]
    /\ heap[call.args[1]] = UniformScaleMatrix(2 * Milli)
    /\ heap[call.ret] = UniformScaleMatrix(4 * Milli)

\* the full extent of a list of points along axis a, and twice its center
ExtentAlong(ps, a) == MaxOf(Axis(ps, a)) - MinOf(Axis(ps, a))
TwiceCenterAlong(ps, a) == MaxOf(Axis(ps, a)) + MinOf(Axis(ps, a))

NormalizeReturned == meshStatus = "imported" /\ meshStatus' = "normalized"

\* C17: after normalizeMesh the box of the transformed (world) positions is
\* centered at the origin and, for a mesh of non-zero extent, its largest
\* extent is 2 (both within the 0.001 the arithmetic resolves per half
\* extent); for a mesh of zero extent the largest extent defaults to 1, so
\* the scale is the finite 1 / 1.
C17_NormalizedBox ==
    [][ NormalizeReturned =>
          LET before == mesh.positions
              after == worldPositions(mesh')
          IN  /\ \A a \in 1..3 : TwiceCenterAlong(after, a) \in -2..2
              /\ IF \E a \in 1..3 : ExtentAlong(before, a) # 0
                 THEN MaxOf({ ExtentAlong(after, a) : a \in 1..3 })
                        \in (2 * Milli - 2)..(2 * Milli)
                 ELSE mesh'.scaling = << Milli, Milli, Milli >> ]_vars

\* the mesh with the vertices (-1, 0, 0) and (3, 3, 0) has been normalized:
\* its box now spans -1..1 along x and y
C17_Witness ==
    /\ meshStatus = "normalized"
    /\ mesh.scaling = << 500, 500, 500 >>
    /\ worldPositions(mesh) = << << 0 - Milli, 0 - 750, 0 >>, << Milli, 750, 0 >> >>

\* the phases of a session's body: Idle (created with mass 0), Launched
\* (created with non-zero mass), Simulating (launched, and the render loop
\* steps the scene)
Idle(s) == s.sphere.created /\ s.sphere.mass = 0
Launched(s) == s.sphere.created /\ s.sphere.mass > 0
Simulating(s) == Launched(s) /\ s.renderLoop /\ ~s.sceneDisposed

\* C18: a body is launched only in a session that the start signal mounted
\* (isRunning false -> true); a body enters Idle only when it is created; a
\* launched body never returns to Idle; and a simulating body goes on being
\* stepped (its render loop stays registered on a scene that is not
\* disposed) until its session is torn down: there is no terminal state.
C18_PhaseOrder ==
    [][ \A i \in DOMAIN sessions' :
          IF i \notin Sessions
          THEN /\ ~sessions'[i].sphere.created
               /\ sessions'[i].running <=> (~isRunning /\ isRunning')
          ELSE /\ sessions'[i].running = sessions[i].running
               /\ (Launched(sessions'[i]) /\ ~Launched(sessions[i]))
                     => (sessions[i].running /\ ~sessions[i].sphere.created)
               /\ (Idle(sessions'[i]) /\ ~Idle(sessions[i])) => ~sessions[i].sphere.created
               /\ Launched(sessions[i]) => Launched(sessions'[i])
               /\ (Simulating(sessions[i]) /\ ~sessions'[i].disposed)
                     => Simulating(sessions'[i]) ]_vars

\* the body of the first session was idle, Start mounted a second session,
\* and the body of that session has been launched and stepped by a frame
C18_Witness ==
    /\ Len(sessions) = 2
    /\ Idle(sessions[1]) /\ sessions[1].disposed
    /\ sessions[2].running /\ Simulating(sessions[2])
    /\ sessions[2].sphere.position = <<0, 0, 3500>>

\* speed * normalize(target - launchPosition) with the target at the origin
Target == <<0, 0, 0>>
ExpectedVelocity(angle, elevation, speed) ==
    LET from == computeLaunchPosition(angle, elevation)
        d == << Target[1] - from[1], Target[2] - from[2], Target[3] - from[3] >>
        len == ISqrt(d[1] * d[1] + d[2] * d[2] + d[3] * d[3])
    IN  [ a \in 1..3 |-> (((d[a] * Milli) \div len) * speed) \div Milli ]

Booting(s) == s.pc \in {"awaitHavok", "awaitMeshes"}

C20_DeferredNotification ==
    [][ /\ (\E i \in Sessions : sessions'[i].triggered # sessions[i].triggered) =>
              /\ alerts' = alerts
              /\ Len(timers') > Len(timers)
              /\ SubSeq(timers', 1, Len(timers)) = timers
        /\ alerts' # alerts =>
              /\ timers # << >>
              /\ alerts' = Append(alerts, Head(timers))
              /\ timers' = Tail(timers)
              /\ sessions' = sessions ]_vars

\* a contact with the primary mesh has been recorded and its notification
\* is pending in a timer; nothing has been shown yet
C20_Witness ==
    \E i \in Sessions :
        /\ sessions[i].triggered = {"primary"}
        /\ timers = << [session |-> i, key |-> "primary"] >>
        /\ alerts = << >>

\* scene.render() of session i can execute: as a frame that steps the
\* scene, or as one that throws
CanRender(i) ==
    \/ ENABLED (\E out \in SimOutcomes : frame(i, out))
    \/ ENABLED frameThrows(i)

\* C21: once a session's teardown has run, no scene.render() of that
\* session can execute, however teardown and bootstrap interleave, also
\* when bootstrap resumes after teardown and registers the render-loop
\* callback on the disposed engine.
C21_NoRenderAfterTeardown ==
    \A i \in Sessions : sessions[i].disposed => ~CanRender(i)

\* bootstrap resumed after teardown: the torn-down session has its body and
\* its render-loop callback registered, on a disposed scene and engine
C21_Witness ==
    \E i \in Sessions :
        /\ sessions[i].disposed /\ sessions[i].sceneDisposed /\ sessions[i].engineDisposed
        /\ sessions[i].pc = "ready"
        /\ sessions[i].sphere.created
        /\ sessions[i].renderLoop

\* C22: every step of App that changes primaryModel or isRunning increments
\* sessionKey, so that the viewer's key changes and the viewer is remounted
\* (the old instance is torn down, a new one is mounted); sessionKey never
\* decreases; a slider change leaves sessionKey, primaryModel and isRunning
\* unchanged; Start acts only while isRunning is false; and isRunning
\* returns to false only through a model selection.
C22_KeyDiscipline ==
    [][ /\ (primaryModel' # primaryModel \/ isRunning' # isRunning) =>
              /\ sessionKey' = sessionKey + 1
              /\ viewerKey(primaryModel', sessionKey') # viewerKey(primaryModel, sessionKey)
              /\ Len(sessions') = Len(sessions) + 1
              /\ sessions'[Live] = cleanup(sessions[Live])
              /\ sessions'[Live + 1].key = sessionKey'
              /\ sessions'[Live + 1].pc = "awaitHavok"
        /\ sessionKey' >= sessionKey
        /\ LaunchChanged => UNCHANGED <<sessionKey, primaryModel, isRunning>>
        /\ (isRunning' /\ sessionKey' # sessionKey) => ~isRunning
        /\ (isRunning /\ ~isRunning') => \E m \in PRIMARY_MODELS : resetViewer(m) ]_vars

\* Start was pressed and a model was then selected: the key is 2, the
\* instance Start had mounted is torn down and isRunning is false again
C22_Witness ==
    /\ sessionKey = 2
    /\ ~isRunning
    /\ primaryModel = "lion"
    /\ sessions[Live - 1].running /\ sessions[Live - 1].disposed
    /\ sessions[Live].key = 2 /\ ~sessions[Live].running

\* C23: a session mounted with running = false gives its body mass 0 and no
\* velocity and registers no collision observer, and no collision
\* notification of such a session is ever recorded, scheduled or shown,
\* whatever the sliders do and whatever the physics engine reports.
C23_IdleNeverNotifies ==
    \A i \in Sessions :
        ~sessions[i].running =>
            /\ sessions[i].sphere.mass = 0
            /\ sessions[i].sphere.velocity = Vec3Zero
            /\ "collision" \notin sessions[i].listeners
            /\ \A c \in Colliders : ~ENABLED collisionObserved(i, c)
            /\ sessions[i].triggered = {}
            /\ \A k \in {"primary", "plane"} : Scheduled(i, k) = 0

\* an idle session has bootstrapped and runs its render loop, its body was
\* moved by the angle slider, and only its resize listener is registered
C23_Witness ==
    \E i \in Sessions :
        /\ ~sessions[i].running /\ ~sessions[i].disposed
        /\ sessions[i].pc = "ready" /\ sessions[i].renderLoop
        /\ sessions[i].sphere.position = computeLaunchPosition(90, DEFAULT_LAUNCH_ELEVATION)
        /\ sessions[i].listeners = {"resize"}

\* the normal numbers written after the slashes of a face line, per vertex
\* token (1-based, as in the text)
NormalRefs(line) ==
    CASE line = LFN -> <<1, 1, 2>>
      [] OTHER -> << >>

\* the normals of the fan of a face with normal numbers nrefs: a number that
\* names one of the normal lines vns is that normal, any other is (0,0,0)
NormalFan(nrefs, vns) ==
    [ k \in 1..(9 * (Len(nrefs) - 2)) |->
        LET t == ((k - 1) \div 9) + 1
            corner == ((k - 1) % 9) \div 3
            ref == IF corner = 0 THEN nrefs[1] ELSE nrefs[t + corner]
        IN  IF ref \in 1..Len(vns) THEN vns[ref][((k - 1) % 3) + 1] ELSE 0 ]

Unresolved(nrefs, vns) == \E j \in DOMAIN nrefs : nrefs[j] \notin 1..Len(vns)

====
